---- MODULE Spec2Model ----
(***************************************************************************)
(* Model of the chat server of eliseuv/chat-app.                           *)
(*                                                                         *)
(*  - the connection worker   src/server/src/client.rs   (Client)          *)
(*  - the dispatcher          src/server/src/server.rs   (Server)          *)
(*  - the listener            src/server/src/bin/server.rs (main)          *)
(*                                                                         *)
(* Workers send requests on one channel (queue); the dispatcher takes one  *)
(* request at a time.  The worker's Request::{Connect, Disconnet, Ban,     *)
(* Broadcast} are the dispatcher's MessageContent::{ConnectRequest,        *)
(* DisconnetRequest, BanMe, Bytes}.  Time is in milliseconds.              *)
(***************************************************************************)
EXTENDS Integers, Sequences, FiniteSets, TLC

(***************************************************************************)
(* Program constants                                                       *)
(***************************************************************************)
\* server.rs:24  TimeDelta::seconds(5 * 60), in milliseconds
TOTAL_BAN_TIME == 300000
\* server.rs:25
TOKEN_LENGTH == 8
\* client.rs:22  TimeDelta::milliseconds(300)
MESSAGE_COOLDOWN_TIME == 300
\* client.rs:23
MAX_STRIKE_COUNT == 5
\* milliseconds in one second (TimeDelta::num_seconds)
MILLIS_PER_SEC == 1000

(***************************************************************************)
(* Bounds of the model                                                     *)
(***************************************************************************)
\* chunks read from the sockets by all workers together
MaxReads == 4
\* steps of the clock in one run
MaxTicks == 2
\* requests waiting in the channel
MaxQueue == 1
\* requests waiting in the channel where their order is looked at
MaxBacklog == 2
\* failed socket calls (read, write, peer_addr) in one run
MaxFaults == 1
MaxReconnects == 1

\* The clock advances by one of these amounts (ms): the cooldown, and the
\* ban time less 300 ms (so that two steps reach the end of a ban exactly).
ShortStep == MESSAGE_COOLDOWN_TIME
LongStep == TOTAL_BAN_TIME - MESSAGE_COOLDOWN_TIME
TickSteps == {ShortStep, LongStep}

(***************************************************************************)
(* Peers: socket addresses <<ip, port>>; two of them share an IP.  Each    *)
(* accepted connection has one worker and one stream, named by its address.*)
(***************************************************************************)
Addrs == {<<1, 1>>, <<1, 2>>, <<2, 3>>}
Ip(addr) == addr[1]
SameIp == {a \in Addrs : Ip(a) = 1}
Alone == {<<1, 1>>}
None == "None"

(***************************************************************************)
(* Bytes and text                                                          *)
(***************************************************************************)
RECURSIVE Utf8From(_, _)
\* the bytes of b from index i on are well-formed UTF-8
Utf8From(b, i) ==
    IF i > Len(b) THEN TRUE
    ELSE LET c == b[i]
             Cont(j) == j <= Len(b) /\ b[j] >= 128 /\ b[j] <= 191
         IN  IF c < 128 THEN Utf8From(b, i + 1)
             ELSE IF c >= 194 /\ c <= 223
                  THEN Cont(i + 1) /\ Utf8From(b, i + 2)
             ELSE IF c >= 224 /\ c <= 239
                  THEN /\ Cont(i + 1) /\ Cont(i + 2)
                       /\ (c = 224 => b[i + 1] >= 160)
                       /\ (c = 237 => b[i + 1] <= 159)
                       /\ Utf8From(b, i + 3)
             ELSE IF c >= 240 /\ c <= 244
                  THEN /\ Cont(i + 1) /\ Cont(i + 2) /\ Cont(i + 3)
                       /\ (c = 240 => b[i + 1] >= 144)
                       /\ (c = 244 => b[i + 1] <= 143)
                       /\ Utf8From(b, i + 4)
             ELSE FALSE

\* core::str::from_utf8 succeeds
Utf8Valid(b) == Utf8From(b, 1)

\* a filter that drops the space as well
FilterControlAndSpace(bytes) == SelectSeq(bytes, LAMBDA c : c > 32)

\* the filter `|c| *c >= 32` of parse_text and of Server::run
FilterControl(bytes) == SelectSeq(bytes, LAMBDA c : c >= 32)

\* parse_text: Ok(text) or Err
parse_text(bytes) ==
    LET bytes_safe == FilterControl(bytes)
    IN  IF Utf8Valid(bytes_safe)
        THEN [kind |-> "ok", text |-> bytes_safe]
        ELSE [kind |-> "err"]

(***************************************************************************)
(* Access token                                                            *)
(***************************************************************************)
\* one digit of {b:02X}
HexUpper(n) == IF n < 10 THEN 48 + n ELSE 55 + n

RECURSIVE TokenDisplayNoPad(_)
\* Display with {b:X}, no leading zero
TokenDisplayNoPad(t) ==
    IF t = <<>> THEN <<>>
    ELSE (IF t[1] < 16 THEN <<HexUpper(t[1])>>
          ELSE <<HexUpper(t[1] \div 16), HexUpper(t[1] % 16)>>)
         \o TokenDisplayNoPad(Tail(t))

RECURSIVE TokenDisplay(_)
\* impl Display for Token
TokenDisplay(t) ==
    IF t = <<>> THEN <<>>
    ELSE <<HexUpper(t[1] \div 16), HexUpper(t[1] % 16)>> \o TokenDisplay(Tail(t))

\* char::to_digit(16), -1 for no digit
HexVal(c) ==
    IF c >= 48 /\ c <= 57 THEN c - 48
    ELSE IF c >= 65 /\ c <= 70 THEN c - 55
    ELSE IF c >= 97 /\ c <= 102 THEN c - 87
    ELSE -1

RECURSIVE DigitsValue(_, _)
DigitsValue(d, acc) ==
    IF d = <<>> THEN acc
    ELSE IF HexVal(d[1]) < 0 THEN -1
    ELSE DigitsValue(Tail(d), 16 * acc + HexVal(d[1]))

\* u8::from_str_radix(src, 16) for a slice of one or two bytes; -1 for Err.
\* A leading '+' is a sign; '-' is no digit of an unsigned type.
FromStrRadix16(src) ==
    IF src = <<>> THEN -1
    ELSE IF src[1] = 43
         THEN IF Len(src) = 1 THEN -1 ELSE DigitsValue(Tail(src), 0)
    ELSE DigitsValue(src, 0)

\* str::is_char_boundary(i), i counted from 0
IsCharBoundary(s, i) ==
    \/ i = 0
    \/ i = Len(s)
    \/ (i < Len(s) /\ ~(s[i + 1] >= 128 /\ s[i + 1] <= 191))

RECURSIVE TokenPairs(_, _, _)
\* the loop of Token::from_str over the byte pairs; slicing off a char
\* boundary panics
TokenPairs(s, k, buffer) ==
    IF k = TOKEN_LENGTH THEN [kind |-> "ok", token |-> buffer]
    ELSE IF ~IsCharBoundary(s, 2 * k) \/ ~IsCharBoundary(s, 2 * k + 2)
         THEN [kind |-> "panic"]
    ELSE LET b == FromStrRadix16(SubSeq(s, 2 * k + 1, 2 * k + 2))
         IN  IF b < 0 THEN [kind |-> "err"]
             ELSE TokenPairs(s, k + 1, Append(buffer, b))

\* Token::from_str of server.rs
TokenFromStr(s) ==
    IF Len(s) # 2 * TOKEN_LENGTH THEN [kind |-> "err"]
    ELSE TokenPairs(s, 0, <<>>)

\* the tokens Token::generate may draw in this model
TokenChoices == { <<222, 173, 190, 239, 10, 0, 255, 66>> }
\* another token, one a peer may guess
WrongToken == <<1, 35, 69, 103, 137, 171, 205, 239>>

\* tokens in which every value of a byte occurs
TokenSamples ==
    { [k \in 1..TOKEN_LENGTH |-> TOKEN_LENGTH * j + k - 1] :
        j \in 0..(256 \div TOKEN_LENGTH - 1) }

\* the text of each token as the operator reads it in the log
TokenText ==
    [t \in TokenChoices \cup {WrongToken} \cup TokenSamples |-> TokenDisplay(t)]

RECURSIVE PlusForm(_)
\* the token's text with "+" for the first digit of every byte under 0x10
PlusForm(t) ==
    IF t = <<>> THEN <<>>
    ELSE (IF t[1] < 16 THEN <<43, HexUpper(t[1])>>
          ELSE <<HexUpper(t[1] \div 16), HexUpper(t[1] % 16)>>) \o PlusForm(Tail(t))

\* the text holds the token as Display renders it
Reveals(text, token) ==
    \E i \in 1..(Len(text) - 2 * TOKEN_LENGTH + 1) :
        SubSeq(text, i, i + 2 * TOKEN_LENGTH - 1) = TokenText[token]

\* the call sites that put `text` in a log line, if that shows the token
Logged(sites, text, token) == IF Reveals(text, token) THEN sites ELSE {}

\* a chat line and a line end
Hi == <<104, 105>>
Newline == <<10>>

\* sixteen bytes of well-formed UTF-8, "a", seven times U+00E9, "b": every
\* two-byte character lies across the end of a byte pair
Odd == <<97, 195, 169, 195, 169, 195, 169, 195, 169, 195, 169, 195, 169, 195, 169, 98>>

\* chat lines with control bytes: a colour escape round "h i" and a line
\* end; US, space, "!"; DEL; a line end alone; ESC CR LF; a line end inside
\* a two-byte character; a byte that is no UTF-8; ESC after a lead byte
TextChunks ==
    { Hi,
      <<27, 91, 51, 49, 109, 104, 32, 105, 27, 91, 48, 109, 10>>,
      <<31, 32, 33>>,
      <<127>>,
      Newline,
      <<27, 13, 10>>,
      <<195, 10, 169>>,
      <<104, 255, 105>>,
      <<195, 27>> }

\* sixteen bytes of well-formed UTF-8, eight times U+00E9: every character
\* is a byte pair
Accents == [k \in 1..(2 * TOKEN_LENGTH) |-> IF k % 2 = 1 THEN 195 ELSE 169]

\* what TcpStream::read gives in read_stream: bytes (none at EOF) or an error
Data(bytes) == [kind |-> "data", bytes |-> bytes]
ReadError == [kind |-> "error", bytes |-> <<>>]
Eof == Data(<<>>)
NoInput == [kind |-> "none", bytes |-> <<>>]

(***************************************************************************)
(* State                                                                   *)
(***************************************************************************)
VARIABLES
    now,                \* Utc::now(), ms
    peers,              \* the addresses that connect in this run
    chunk,              \* the chat line the peers of this run send
    gen,                \* how many times the peer at an address connected anew
    listening,          \* main is in its accept loop and holds message_sender
    ticks,              \* clock steps left to this run
    reads,              \* chunks read so far
    faults,             \* failing socket calls left to this run
    access_token,       \* Server.access_token
    pc,                 \* worker: "init", "auth", "read", "done"
    exit,               \* worker: why Client::run ended, None while running
    auth_input,         \* worker: the bytes read by Client::authenticate
    last_message_time,  \* Client.last_message_time
    strike_count,       \* Client.strike_count
    sent,               \* worker: the kinds of the requests it sent, in order
                        \* (a run of Broadcasts is written once)
    streak,             \* worker: how many evaluations of rate_limiter in a
                        \* row, up to now, came under the cooldown
    wrote,              \* worker: how many requests it had sent when it last
                        \* wrote to its stream, -1 if it never wrote
    worker_io,          \* worker: what its thread did to its stream, in order
    queue,              \* the mpsc channel
    ban_list,           \* Server.ban_list: ip -> banned_at
    clients,            \* Server.clients: addr -> ClientInfo
    conns,              \* Server.conns: addr -> stream
    wait_list,          \* Server.wait_list: addr -> stream
    last,               \* what the dispatcher did in the step just taken
                        \* (NoLast after a step of another thread)
    log,                \* the call sites that wrote the access token's text
                        \* to the log in the step just taken
    running             \* the loop of Server::run has not panicked

worker_vars == <<pc, exit, auth_input, last_message_time, strike_count, sent, streak,
                 wrote, worker_io>>
server_vars == <<ban_list, clients, conns, wait_list, running>>
vars == <<now, peers, chunk, gen, listening, ticks, reads, faults, access_token, pc,
          exit, auth_input, last_message_time, strike_count, sent, streak, wrote,
          worker_io, queue, ban_list, clients, conns, wait_list, last, log, running>>

\* a HashMap as a function on its keys
EmptyMap == <<>>
MapRemove(m, k) == [x \in DOMAIN m \ {k} |-> m[x]]
MapInsert(m, k, v) == [x \in DOMAIN m \cup {k} |-> IF x = k THEN v ELSE m[x]]

\* ClientRequest { addr, request } of Client::send_request
Request(addr, kind, bytes) ==
    [addr |-> addr, kind |-> kind, stream |-> addr, bytes |-> bytes]

\* the TcpStream of the connection the peer at addr has now: the address
\* for its first connection, the address and a number for a later one
Stream(addr) == IF gen[addr] = 0 THEN addr ELSE Append(addr, gen[addr])

NoRequest == [addr |-> <<0, 0>>, kind |-> None, stream |-> <<0, 0>>, bytes |-> <<>>]
NoLast == [req |-> NoRequest, banned |-> FALSE, fanout |-> FALSE, io |-> <<>>]

\* one thing a thread did to a stream: a write_all+flush (ok or
\* failed) of a text, or a shutdown
Text(tag, n, bytes) == [tag |-> tag, n |-> n, bytes |-> bytes]
Write(stream, text, ok) == [op |-> "write", stream |-> stream, text |-> text, ok |-> ok]
Shutdown(stream) ==
    [op |-> "shutdown", stream |-> stream, text |-> Text("", 0, <<>>), ok |-> TRUE]

\* the streams written to in a sequence of such things
WrittenTo(io) == { io[k].stream : k \in { j \in 1..Len(io) : io[j].op = "write" } }

\* The state when main has bound the listener and spawned Server::run, in a
\* run where the peers `ps` connect, the clock takes at most `t` steps, at
\* most `f` socket calls fail, Token::generate draws from `tokens` and the
\* peers' chat line is one of `chunks`.  Server::new has logged the token.
SetupFor(ps, t, f, tokens, chunks) ==
    /\ now = 0
    /\ peers = ps
    /\ chunk \in chunks
    /\ gen = [a \in Addrs |-> 0]
    /\ log = {"Server::new"}
    /\ listening = TRUE
    /\ ticks = t
    /\ reads = 0
    /\ faults = f
    /\ access_token \in tokens
    /\ pc = [a \in Addrs |-> "init"]
    /\ exit = [a \in Addrs |-> None]
    /\ auth_input = [a \in Addrs |-> NoInput]
    /\ last_message_time = [a \in Addrs |-> 0]
    /\ strike_count = [a \in Addrs |-> 0]
    /\ sent = [a \in Addrs |-> <<>>]
    /\ streak = [a \in Addrs |-> 0]
    /\ wrote = [a \in Addrs |-> -1]
    /\ worker_io = [a \in Addrs |-> <<>>]
    /\ queue = <<>>
    /\ ban_list = EmptyMap
    /\ clients = EmptyMap
    /\ conns = EmptyMap
    /\ wait_list = EmptyMap
    /\ last = NoLast
    /\ running = TRUE

\* The same, with the one token and the one chat line of most runs.
Setup(ps, t, f) == SetupFor(ps, t, f, TokenChoices, {Hi})

(***************************************************************************)
(* The clock                                                               *)
(***************************************************************************)
\* Time passes while every thread is blocked: the workers in a read, the
\* dispatcher in recv on the empty channel.  Only differences of times are
\* ever computed, against last_message_time by a worker and against
\* banned_at by the dispatcher, so the clock steps while one of the two is
\* held; the long step, which for a worker is as good as the short one, while
\* a ban is held.
Tick ==
    /\ ticks > 0
    /\ queue = <<>>
    /\ \E d \in TickSteps :
          /\ \/ DOMAIN ban_list # {}
             \/ d = ShortStep /\ \E w \in Addrs : pc[w] \in {"auth", "read"}
          /\ now' = now + d
    /\ ticks' = ticks - 1
    /\ UNCHANGED <<peers, chunk, gen, listening, reads, faults, access_token, queue>>
    /\ log' = {}
    /\ UNCHANGED worker_vars
    /\ UNCHANGED server_vars
    /\ last' = NoLast

(***************************************************************************)
(* Connection worker (client.rs)                                           *)
(***************************************************************************)
\* rate_limiter with the cooldown test made non-strict
rate_limiter_le(strikes, last_time, message_time) ==
    IF message_time - last_time <= MESSAGE_COOLDOWN_TIME
    THEN IF strikes + 1 >= MAX_STRIKE_COUNT
         THEN [ban |-> TRUE, strike_count |-> 0, last_message_time |-> last_time]
         ELSE [ban |-> FALSE, strike_count |-> strikes + 1,
               last_message_time |-> message_time]
    ELSE [ban |-> FALSE, strike_count |-> 0, last_message_time |-> message_time]

\* rate_limiter with the strike test made strict
rate_limiter_gt(strikes, last_time, message_time) ==
    IF message_time - last_time < MESSAGE_COOLDOWN_TIME
    THEN IF strikes + 1 > MAX_STRIKE_COUNT
         THEN [ban |-> TRUE, strike_count |-> 0, last_message_time |-> last_time]
         ELSE [ban |-> FALSE, strike_count |-> strikes + 1,
               last_message_time |-> message_time]
    ELSE [ban |-> FALSE, strike_count |-> 0, last_message_time |-> message_time]

\* rate_limiter that leaves the strikes as they are when it says ban
rate_limiter_no_reset(strikes, last_time, message_time) ==
    IF message_time - last_time < MESSAGE_COOLDOWN_TIME
    THEN IF strikes + 1 >= MAX_STRIKE_COUNT
         THEN [ban |-> TRUE, strike_count |-> strikes + 1, last_message_time |-> last_time]
         ELSE [ban |-> FALSE, strike_count |-> strikes + 1,
               last_message_time |-> message_time]
    ELSE [ban |-> FALSE, strike_count |-> 0, last_message_time |-> message_time]

\* Client::rate_limiter at time message_time
rate_limiter(strikes, last_time, message_time) ==
    IF message_time - last_time < MESSAGE_COOLDOWN_TIME
    THEN IF strikes + 1 >= MAX_STRIKE_COUNT
         THEN [ban |-> TRUE, strike_count |-> 0, last_message_time |-> last_time]
         ELSE [ban |-> FALSE, strike_count |-> strikes + 1,
               last_message_time |-> message_time]
    ELSE [ban |-> FALSE, strike_count |-> 0, last_message_time |-> message_time]

\* authenticate without the compare: any well-formed token passes
AuthResultAnyToken(bytes, token) ==
    LET text == parse_text(bytes)
    IN  IF text.kind = "err" THEN "err"
        ELSE LET parsed == TokenFromStr(text.text)
             IN  IF parsed.kind = "panic" THEN "panic"
                 ELSE IF parsed.kind = "err" THEN "err"
                 ELSE "ok"

\* the compare of Client::authenticate on the bytes read: "ok", "err", "panic"
AuthResult(bytes, token) ==
    LET text == parse_text(bytes)
    IN  IF text.kind = "err" THEN "err"
        ELSE LET parsed == TokenFromStr(text.text)
             IN  IF parsed.kind = "panic" THEN "panic"
                 ELSE IF parsed.kind = "err" THEN "err"
                 ELSE IF parsed.token = token THEN "ok" ELSE "err"

\* what the read of Client::authenticate may give when the access token is
\* `token`: the token and a line end, another token, an error
AuthInputsOf(token) ==
    { Data(TokenText[token] \o Newline),
      Data(TokenText[WrongToken]),
      ReadError }

\* what a peer may send in answer to the challenge
AuthInputs == AuthInputsOf(access_token)

\* candidate strings a peer may send in answer to the challenge when the
\* access token is `token`: its text, its text with "+" signs, text that is
\* not ASCII, a digit short, a digit long, "G" for the first digit
TokenCandidates(token) ==
    { Data(TokenText[token]),
      Data(PlusForm(token)),
      Data(Odd),
      Data(Accents),
      Data(SubSeq(TokenText[token], 1, 2 * TOKEN_LENGTH - 1)),
      Data(Append(TokenText[token], 48)),
      Data([TokenText[token] EXCEPT ![1] = 71]) }

\* what a peer that stays sends once its worker reads in the chat loop
ChatTexts == { Data(TokenText[access_token]), Data(Hi) }

\* what a peer may send once its worker reads in the chat loop
ChatInputs == { Data(TokenText[access_token]), Data(Hi), Eof, ReadError }

\* the requests sent so far and one more, of this kind
Sent(history, kind) ==
    IF kind = "Broadcast" /\ history # <<>> /\ history[Len(history)] = "Broadcast"
    THEN history
    ELSE Append(history, kind)

\* main accepts the connection: Client::new and thread::spawn
Accept(w) ==
    /\ listening
    /\ w \in peers
    /\ pc[w] = "init"
    /\ last_message_time' = [last_message_time EXCEPT ![w] = now]
    /\ strike_count' = [strike_count EXCEPT ![w] = 0]
    /\ pc' = [pc EXCEPT ![w] = "auth"]
    /\ UNCHANGED <<now, peers, chunk, gen, listening, ticks, reads, faults,
                   access_token, exit, auth_input, sent, streak, wrote, worker_io,
                   queue>>
    /\ log' = {}
    /\ UNCHANGED server_vars
    /\ last' = NoLast

\* The peer at w, whose worker has ended, connects again from the same
\* address and port: main accepts, Client::new on the new stream and
\* thread::spawn.
Reaccept(w) ==
    /\ listening
    /\ w \in peers
    /\ pc[w] = "done"
    /\ gen[w] < MaxReconnects
    /\ gen' = [gen EXCEPT ![w] = @ + 1]
    /\ pc' = [pc EXCEPT ![w] = "auth"]
    /\ exit' = [exit EXCEPT ![w] = None]
    /\ auth_input' = [auth_input EXCEPT ![w] = NoInput]
    /\ last_message_time' = [last_message_time EXCEPT ![w] = now]
    /\ strike_count' = [strike_count EXCEPT ![w] = 0]
    /\ sent' = [sent EXCEPT ![w] = <<>>]
    /\ streak' = [streak EXCEPT ![w] = 0]
    /\ wrote' = [wrote EXCEPT ![w] = -1]
    /\ worker_io' = [worker_io EXCEPT ![w] = <<>>]
    /\ UNCHANGED <<now, peers, chunk, listening, ticks, reads, faults, access_token,
                   queue>>
    /\ UNCHANGED server_vars
    /\ last' = NoLast
    /\ log' = {}

\* run going on round the chat loop after rate_limiter said ban
ReturnsOnErrorOnly(why, ban) == why # None

\* Client::run returns: with an error (why), or out of the chat loop when
\* rate_limiter says ban
Returns(why, ban) == why # None \/ ban

\* Client::run returns Err: a write, a read, the authentication or a send
\* failed (ban_unsent: the Ban request could not be sent).  EOF and a Ban
\* that was sent return Ok, a panic does not return.
ReturnsErr(why, ban_unsent) ==
    why \in {"write_error", "read_error", "auth_failed", "send_error"} \/ ban_unsent

\* The worker's Client after run has gone on from a read.  why: None when it
\* sends the requests `kinds` (with `bytes`) and goes round the chat loop,
\* else why run returned; the loop's head, rate_limiter, is part of the step,
\* with the Ban request when it says so.  Once run has returned the Client
\* is dropped.  io: what run did to the stream in this step; when run
\* returns an error the closure main spawned shuts the stream down.
Proceed(w, why, kinds, bytes, io) ==
    LET r == rate_limiter(strike_count[w], last_message_time[w], now)
        ban == why = None /\ r.ban
        over == Returns(why, ban)
        all == IF ban /\ running THEN Append(kinds, "Ban") ELSE kinds
        requests == [k \in 1..Len(all) |->
                        [Request(w, all[k], bytes) EXCEPT !.stream = Stream(w)]]
        under == now - last_message_time[w] < MESSAGE_COOLDOWN_TIME
    IN  /\ pc' = [pc EXCEPT ![w] = IF over THEN "done" ELSE "read"]
        /\ exit' = [exit EXCEPT ![w] = IF why # None THEN why
                                       ELSE IF ban THEN "banned" ELSE None]
        /\ strike_count' = [strike_count EXCEPT ![w] =
                               IF why # None THEN 0 ELSE r.strike_count]
        /\ last_message_time' = [last_message_time EXCEPT ![w] =
                               IF over THEN 0 ELSE r.last_message_time]
        /\ streak' = [streak EXCEPT ![w] =
                         IF why # None THEN 0 ELSE IF under THEN @ + 1 ELSE 0]
        /\ queue' = queue \o requests
        /\ worker_io' = [worker_io EXCEPT ![w] =
                            @ \o io \o (IF ReturnsErr(why, ban /\ ~running)
                                        THEN <<Shutdown(Stream(w))>> ELSE <<>>)]
        /\ sent' = [sent EXCEPT ![w] =
                       IF Len(all) = 0 THEN @
                       ELSE IF Len(all) = 1 THEN Sent(@, all[1])
                       ELSE Sent(Sent(@, all[1]), all[2])]

\* the challenge written once the Connect request is sent
SentAtChallengeAfterConnect(history) == Len(history) + 1

\* how many requests the worker has sent when Client::authenticate writes the
\* challenge to the stream: run calls authenticate before request_connect
SentAtChallenge(history) == Len(history)

\* what Client::authenticate writes of the token to the log: Token::from_str logs the
\* string it is given
AuthenticateLog(write_ok, input, token) ==
    LET text == parse_text(input.bytes)
    IN  IF write_ok /\ input.kind = "data" /\ text.kind = "ok"
        THEN Logged({"Token::from_str"}, text.text, token)
        ELSE {}

\* what a round of the chat loop writes of the token to the log: run logs what the peer
\* says, send_text and send_request log the request
ReadLog(input, token) ==
    LET text == parse_text(input.bytes)
    IN  IF input.kind = "data" /\ input.bytes # <<>> /\ text.kind = "ok"
        THEN Logged({"Client::run", "Client::send_text", "Client::send_request"},
                    text.text, token)
        ELSE {}

\* Client::run up to its first read in the chat loop: Client::authenticate
\* (write_ok: the challenge could be written; input: what the read gave),
\* Client::request_connect
Authenticate(w, write_ok, input) ==
    /\ pc[w] = "auth"
    /\ (~write_ok \/ input.kind = "error") => faults > 0
    /\ faults' = IF ~write_ok \/ input.kind = "error" THEN faults - 1 ELSE faults
    /\ auth_input' = [auth_input EXCEPT ![w] = IF write_ok THEN input ELSE @]
    /\ wrote' = [wrote EXCEPT ![w] = SentAtChallenge(sent[w])]
    /\ LET r == AuthResult(input.bytes, access_token)
           challenge == <<Write(Stream(w), Text("Challenge", 0, <<>>), write_ok)>>
       IN  IF ~write_ok THEN Proceed(w, "write_error", <<>>, <<>>, challenge)
           ELSE IF input.kind = "error" THEN Proceed(w, "read_error", <<>>, <<>>, challenge)
           ELSE IF r = "panic" THEN Proceed(w, "panic", <<>>, <<>>, challenge)
           ELSE IF r = "err" THEN Proceed(w, "auth_failed", <<>>, <<>>, challenge)
           ELSE IF ~running THEN Proceed(w, "send_error", <<>>, <<>>, challenge)
           ELSE Proceed(w, None, <<"Connect">>, <<>>, challenge)
    /\ log' = AuthenticateLog(write_ok, input, access_token)
    /\ UNCHANGED <<now, peers, chunk, gen, listening, ticks, reads, access_token>>
    /\ UNCHANGED server_vars
    /\ last' = NoLast

\* one round of the chat loop of Client::run, from the return of read_stream
\* to the next read: Disconnect on EOF, else parse_text and Broadcast
Read(w, input) ==
    /\ pc[w] = "read"
    /\ input.kind = "error" => faults > 0
    /\ faults' = IF input.kind = "error" THEN faults - 1 ELSE faults
    /\ reads' = IF input.kind = "data" /\ input.bytes # <<>> THEN reads + 1 ELSE reads
    /\ LET text == parse_text(input.bytes)
       IN  IF input.kind = "error" THEN Proceed(w, "read_error", <<>>, <<>>, <<>>)
           ELSE IF input.bytes = <<>>
                THEN IF running THEN Proceed(w, "eof", <<"Disconnect">>, <<>>, <<>>)
                     ELSE Proceed(w, "send_error", <<>>, <<>>, <<>>)
           ELSE IF text.kind = "ok" /\ running
                THEN Proceed(w, None, <<"Broadcast">>, text.text, <<>>)
           ELSE Proceed(w, None, <<>>, <<>>, <<>>)
    /\ log' = ReadLog(input, access_token)
    /\ UNCHANGED <<now, peers, chunk, gen, listening, ticks, access_token, auth_input,
                   wrote>>
    /\ UNCHANGED server_vars
    /\ last' = NoLast

(***************************************************************************)
(* Dispatcher (server.rs)                                                  *)
(***************************************************************************)
\* TimeDelta::num_seconds of a duration in ms: whole seconds, towards zero
num_seconds(ms) ==
    IF ms >= 0 THEN ms \div MILLIS_PER_SEC ELSE -((-ms) \div MILLIS_PER_SEC)

\* remaining_secs of Server::ban_filter
remaining_secs(banned_at, t) == num_seconds((banned_at + TOTAL_BAN_TIME) - t)

\* Server::ban_filter on request m at time t; bad: the streams whose writes
\* fail
ban_filter(m, bl, cn, t, bad) ==
    LET author_addr == m.addr
        author_ip == Ip(author_addr)
    IN  IF author_ip \in DOMAIN bl
        THEN LET secs == remaining_secs(bl[author_ip], t)
                 notice == Text("Banned", secs, <<>>)
             IN  IF secs > 0
                 THEN IF author_addr \in DOMAIN cn
                      THEN [banned |-> TRUE, ban_list |-> bl,
                            conns |-> MapRemove(cn, author_addr),
                            io |-> << Write(cn[author_addr], notice,
                                            cn[author_addr] \notin bad),
                                      Shutdown(cn[author_addr]) >>]
                      ELSE [banned |-> TRUE, ban_list |-> bl, conns |-> cn,
                            io |-> IF m.kind = "Connect"
                                   THEN << Write(m.stream, notice, m.stream \notin bad),
                                           Shutdown(m.stream) >>
                                   ELSE <<>>]
                 ELSE [banned |-> FALSE, ban_list |-> MapRemove(bl, author_ip),
                       conns |-> cn, io |-> <<>>]
        ELSE [banned |-> FALSE, ban_list |-> bl, conns |-> cn, io |-> <<>>]

\* ClientInfo::new that drops its argument
ClientInfoSameId(id) == [id |-> 0, auth_timestamp |-> None]

\* ClientInfo::new
\* auth_timestamp: Option<DateTime>, of which only is_none() is ever read;
\* the model keeps "None" or "Some"
ClientInfo(id) == [id |-> id, auth_timestamp |-> None]

\* utils::insert_or_get_mut
insert_or_get_mut(hashmap, key, new_value) ==
    IF key \in DOMAIN hashmap THEN hashmap ELSE MapInsert(hashmap, key, new_value)

\* Server::connect_client, and the shutdown Server::run does when it fails.
\* peer_ok: stream.peer_addr() succeeds (it then is the worker's address).
connect_client(addr, stream, cl, cn, wl, peer_ok, bad) ==
    IF ~peer_ok
    THEN [ok |-> FALSE, wait_list |-> wl, io |-> <<Shutdown(stream)>>]
    ELSE IF addr \in DOMAIN cn
    THEN [ok |-> TRUE, wait_list |-> wl, io |-> <<>>]
    ELSE IF addr \in DOMAIN cl
    THEN IF cl[addr].auth_timestamp = None
         THEN IF stream \in bad
              THEN [ok |-> FALSE, wait_list |-> wl,
                    io |-> << Write(stream, Text("Token", 0, <<>>), FALSE),
                              Shutdown(stream) >>]
              ELSE [ok |-> TRUE, wait_list |-> MapInsert(wl, addr, stream),
                    io |-> << Write(stream, Text("Token", 0, <<>>), TRUE) >>]
         ELSE [ok |-> TRUE, wait_list |-> MapInsert(wl, addr, stream), io |-> <<>>]
    ELSE [ok |-> TRUE, wait_list |-> wl, io |-> <<>>]

\* disconnect_client that shuts the stream and keeps the entry
disconnect_client_keeps(addr, cn) ==
    IF addr \in DOMAIN cn
    THEN [ok |-> TRUE, conns |-> cn, io |-> <<Shutdown(cn[addr])>>]
    ELSE [ok |-> FALSE, conns |-> cn, io |-> <<>>]

\* Server::disconnect_client
disconnect_client(addr, cn) ==
    IF addr \in DOMAIN cn
    THEN [ok |-> TRUE, conns |-> MapRemove(cn, addr), io |-> <<Shutdown(cn[addr])>>]
    ELSE [ok |-> FALSE, conns |-> cn, io |-> <<>>]

\* Server::shutdown_client with Some(text)
shutdown_client(addr, text, cn, wl, bad) ==
    IF addr \in DOMAIN wl
    THEN [conns |-> cn, wait_list |-> MapRemove(wl, addr),
          io |-> << Write(wl[addr], text, wl[addr] \notin bad), Shutdown(wl[addr]) >>]
    ELSE IF addr \in DOMAIN cn
    THEN [conns |-> MapRemove(cn, addr), wait_list |-> wl,
          io |-> << Write(cn[addr], text, cn[addr] \notin bad), Shutdown(cn[addr]) >>]
    ELSE [conns |-> cn, wait_list |-> wl, io |-> <<>>]

\* Server::ban_client at time t
ban_client(addr, bl, cn, wl, t, bad) ==
    LET down == shutdown_client(addr, Text("Ban", TOTAL_BAN_TIME \div MILLIS_PER_SEC, <<>>),
                                cn, wl, bad)
    IN  [ban_list |-> MapInsert(bl, Ip(addr), t),
         conns |-> down.conns, wait_list |-> down.wait_list, io |-> down.io]

\* authenticate_client that reads the stream in the wait list and leaves it
\* there
authenticate_client_get(addr, bytes, token, cl, cn, wl, t, bad) ==
    LET same == [kind |-> "err", clients |-> cl, conns |-> cn, wait_list |-> wl,
                 io |-> <<>>]
    IN  IF Len(bytes) # 2 * TOKEN_LENGTH THEN same
        ELSE IF ~Utf8Valid(bytes) THEN same
        ELSE LET parsed == TokenFromStr(bytes)
             IN  IF parsed.kind = "panic" THEN [same EXCEPT !.kind = "panic"]
                 ELSE IF parsed.kind = "err" THEN same
                 ELSE IF parsed.token # token THEN same
                 ELSE IF addr \notin DOMAIN cl THEN same
                 ELSE LET cl2 == [cl EXCEPT ![addr].auth_timestamp = "Some"]
                          welcome == Text("Welcome", cl[addr].id, <<>>)
                      IN  IF addr \notin DOMAIN wl
                          THEN [same EXCEPT !.clients = cl2]
                          ELSE IF wl[addr] \in bad
                          THEN [kind |-> "err", clients |-> cl2, conns |-> cn,
                                wait_list |-> wl,
                                io |-> << Write(wl[addr], welcome, FALSE) >>]
                          ELSE [kind |-> "ok", clients |-> cl2,
                                conns |-> MapInsert(cn, addr, wl[addr]),
                                wait_list |-> wl,
                                io |-> << Write(wl[addr], welcome, TRUE) >>]

\* Server::authenticate_client at time t: kind "ok", "err" or "panic"
authenticate_client(addr, bytes, token, cl, cn, wl, t, bad) ==
    LET same == [kind |-> "err", clients |-> cl, conns |-> cn, wait_list |-> wl,
                 io |-> <<>>]
    IN  IF Len(bytes) # 2 * TOKEN_LENGTH THEN same
        ELSE IF ~Utf8Valid(bytes) THEN same
        ELSE LET parsed == TokenFromStr(bytes)
             IN  IF parsed.kind = "panic" THEN [same EXCEPT !.kind = "panic"]
                 ELSE IF parsed.kind = "err" THEN same
                 ELSE IF parsed.token # token THEN same
                 ELSE IF addr \notin DOMAIN cl THEN same
                 ELSE LET cl2 == [cl EXCEPT ![addr].auth_timestamp = "Some"]
                          welcome == Text("Welcome", cl[addr].id, <<>>)
                      IN  IF addr \notin DOMAIN wl
                          THEN [same EXCEPT !.clients = cl2]
                          ELSE IF wl[addr] \in bad
                          THEN [kind |-> "err", clients |-> cl2, conns |-> cn,
                                wait_list |-> MapRemove(wl, addr),
                                io |-> << Write(wl[addr], welcome, FALSE) >>]
                          ELSE [kind |-> "ok", clients |-> cl2,
                                conns |-> MapInsert(cn, addr, wl[addr]),
                                wait_list |-> MapRemove(wl, addr),
                                io |-> << Write(wl[addr], welcome, TRUE) >>]

RECURSIVE SetToSeq(_)
\* the keys of a map in the order the fan-out visits them (HashMap::iter
\* promises none; the model takes one)
SetToSeq(S) ==
    IF S = {} THEN <<>>
    ELSE LET x == CHOOSE a \in S : \A b \in S : a[2] <= b[2]
         IN  <<x>> \o SetToSeq(S \ {x})

\* the fan-out without the test on the author
RecipientsWithAuthor(author_addr, cn) == DOMAIN cn

\* the addresses Server::broadcast_message writes to
Recipients(author_addr, cn) == { peer_addr \in DOMAIN cn : peer_addr # author_addr }

\* the writes of a fan-out that returns at the first write that fails
UpToFirstFailure(io) ==
    LET failed == { k \in 1..Len(io) : ~io[k].ok }
    IN  IF failed = {} THEN io
        ELSE SubSeq(io, 1, CHOOSE k \in failed : \A j \in failed : k <= j)

\* broadcast_message whose loop ends at the first write that fails
broadcast_message_aborts(author_addr, bytes, cl, cn, bad) ==
    IF author_addr \notin DOMAIN cl
    THEN [ok |-> FALSE, io |-> <<>>]
    ELSE LET author_id == cl[author_addr].id
             others == SetToSeq(Recipients(author_addr, cn))
             io == [k \in 1..Len(others) |->
                      Write(cn[others[k]], Text("user", author_id, bytes),
                            cn[others[k]] \notin bad)]
         IN  [ok |-> TRUE, io |-> UpToFirstFailure(io)]

\* broadcast_message that writes to every address of the client table, to
\* the stream of its worker, connected or not
broadcast_message_to_clients(author_addr, bytes, cl, cn, bad) ==
    IF author_addr \notin DOMAIN cl
    THEN [ok |-> FALSE, io |-> <<>>]
    ELSE LET author_id == cl[author_addr].id
             others == SetToSeq(DOMAIN cl \ {author_addr})
         IN  [ok |-> TRUE,
              io |-> [k \in 1..Len(others) |->
                        Write(others[k], Text("user", author_id, bytes),
                              others[k] \notin bad)]]

\* broadcast_message that writes to the first recipient only
broadcast_message_to_one(author_addr, bytes, cl, cn, bad) ==
    IF author_addr \notin DOMAIN cl
    THEN [ok |-> FALSE, io |-> <<>>]
    ELSE LET author_id == cl[author_addr].id
             others == SetToSeq(Recipients(author_addr, cn))
         IN  [ok |-> TRUE,
              io |-> [k \in 1..(IF others = <<>> THEN 0 ELSE 1) |->
                        Write(cn[others[k]], Text("user", author_id, bytes),
                              cn[others[k]] \notin bad)]]

\* Server::broadcast_message for MessageContent::Bytes
broadcast_message(author_addr, bytes, cl, cn, bad) ==
    IF author_addr \notin DOMAIN cl
    THEN [ok |-> FALSE, io |-> <<>>]
    ELSE LET author_id == cl[author_addr].id
             others == SetToSeq(Recipients(author_addr, cn))
         IN  [ok |-> TRUE,
              io |-> [k \in 1..Len(others) |->
                        Write(cn[others[k]], Text("user", author_id, bytes),
                              cn[others[k]] \notin bad)]]

\* what one turn of the loop of Server::run leaves behind
Outcome(req, banned, fanout, panic, bl, cl, cn, wl, io) ==
    [req |-> req, banned |-> banned, fanout |-> fanout, panic |-> panic,
     ban_list |-> bl, clients |-> cl, conns |-> cn, wait_list |-> wl, io |-> io]

\* one turn of the loop of Server::run on request m at time t
Dispatch(m, token, bl0, cl0, cn0, wl0, t, peer_ok, bad) ==
    LET f == ban_filter(m, bl0, cn0, t, bad)
    IN  IF f.banned
        THEN Outcome(m, TRUE, FALSE, FALSE, f.ban_list, cl0, f.conns, wl0, f.io)
        ELSE
        LET client_addr == m.addr
            bl == f.ban_list
            cn == f.conns
            cl == insert_or_get_mut(cl0, client_addr, ClientInfo(Cardinality(DOMAIN cl0)))
        IN  CASE m.kind = "Connect" ->
                   LET r == connect_client(client_addr, m.stream, cl, cn, wl0, peer_ok, bad)
                   IN  Outcome(m, FALSE, FALSE, FALSE, bl, cl, cn, r.wait_list, r.io)
              [] m.kind = "Disconnect" ->
                   LET r == disconnect_client(client_addr, cn)
                   IN  Outcome(m, FALSE, FALSE, FALSE, bl, cl, r.conns, wl0, r.io)
              [] m.kind = "Ban" ->
                   LET r == ban_client(client_addr, bl, cn, wl0, t, bad)
                   IN  Outcome(m, FALSE, FALSE, FALSE, r.ban_list, cl, r.conns,
                               r.wait_list, r.io)
              [] m.kind = "Broadcast" ->
                   LET bytes_safe == FilterControl(m.bytes)
                   IN  IF cl[client_addr].auth_timestamp = None
                       THEN LET a == authenticate_client(client_addr, bytes_safe, token,
                                                         cl, cn, wl0, t, bad)
                            IN  IF a.kind = "ok"
                                THEN Outcome(m, FALSE, FALSE, FALSE, bl, a.clients,
                                             a.conns, a.wait_list, a.io)
                                ELSE IF a.kind = "panic"
                                THEN Outcome(m, FALSE, FALSE, TRUE, bl, cl, cn, wl0, <<>>)
                                ELSE LET d == shutdown_client(client_addr,
                                                  Text("Invalid token", 0, <<>>),
                                                  a.conns, a.wait_list, bad)
                                     IN  Outcome(m, FALSE, FALSE, FALSE, bl, a.clients,
                                                 d.conns, d.wait_list, a.io \o d.io)
                       ELSE IF ~Utf8Valid(bytes_safe)
                       THEN Outcome(m, FALSE, FALSE, FALSE, bl, cl, cn, wl0, <<>>)
                       ELSE LET b == broadcast_message(client_addr, bytes_safe, cl, cn, bad)
                            IN  Outcome(m, FALSE, b.ok, FALSE, bl, cl, cn, wl0, b.io)

\* what a turn on request m writes of the token to the log: authenticate_client logs the
\* token string and Token::from_str logs it again; Server::run logs the
\* text it broadcasts
DispatchLog(m, token, banned, cl0) ==
    LET bytes_safe == FilterControl(m.bytes)
    IN  IF banned \/ m.kind # "Broadcast" THEN {}
        ELSE IF m.addr \notin DOMAIN cl0 \/ cl0[m.addr].auth_timestamp = None
        THEN IF Len(bytes_safe) = 2 * TOKEN_LENGTH /\ Utf8Valid(bytes_safe)
             THEN Logged({"Server::authenticate_client", "Token::from_str"},
                         bytes_safe, token)
             ELSE {}
        ELSE IF Utf8Valid(bytes_safe)
        THEN Logged({"Server::run"}, bytes_safe, token)
        ELSE {}

\* a receive that takes the request sent last
recv_newest(channel) ==
    [message |-> channel[Len(channel)],
     rest |-> SubSeq(channel, 1, Len(channel) - 1)]

\* Receiver::recv on a channel that holds requests: the one sent first, and
\* the channel without it
recv(channel) == [message |-> Head(channel), rest |-> Tail(channel)]

\* the streams a turn on the next request writes to when no call fails
Targets ==
    UNION { WrittenTo(o.io) :
            o \in {Dispatch(recv(queue).message, access_token, ban_list, clients, conns,
                            wait_list, now, TRUE, {})} }

\* the sets of streams whose writes may fail in the next turn
Failing == IF faults = 0 THEN {{}} ELSE SUBSET Targets

\* Server::run: receive one request and handle it.  peer_ok and bad say
\* which socket calls fail this time.
ServerRun(peer_ok, bad) ==
    /\ running
    /\ queue # <<>>
    /\ ~peer_ok => recv(queue).message.kind = "Connect"
    /\ Cardinality(bad) + (IF peer_ok THEN 0 ELSE 1) <= faults
    /\ faults' = faults - Cardinality(bad) - (IF peer_ok THEN 0 ELSE 1)
    /\ \E o \in {Dispatch(recv(queue).message, access_token, ban_list, clients, conns,
                         wait_list, now, peer_ok, bad)} :
           /\ ban_list' = o.ban_list
           /\ clients' = o.clients
           /\ conns' = o.conns
           /\ wait_list' = o.wait_list
           /\ running' = ~o.panic
           /\ last' = [req |-> o.req, banned |-> o.banned,
                       fanout |-> o.fanout, io |-> o.io]
           /\ log' = DispatchLog(o.req, access_token, o.banned, clients)
    /\ queue' = recv(queue).rest
    /\ UNCHANGED <<now, peers, chunk, gen, listening, ticks, reads, access_token>>
    /\ UNCHANGED worker_vars

\* every Sender of the channel is dropped: the one main holds and the clone
\* of each worker (a worker's Client is dropped when its thread ends)
Closed == ~listening /\ \A w \in Addrs : pc[w] \in {"init", "done"}

\* The owner of message_sender drops it.  Server::run is a public function
\* of the library and runs on whatever Receiver Server::new was given; the
\* main of bin/server.rs itself never leaves its accept loop.
Stop ==
    /\ listening
    /\ listening' = FALSE
    /\ UNCHANGED <<now, peers, chunk, gen, ticks, reads, faults, access_token, queue>>
    /\ log' = {}
    /\ UNCHANGED worker_vars
    /\ UNCHANGED server_vars
    /\ last' = NoLast

\* Server::run: recv on the closed and empty channel returns Err; the loop
\* logs it and continues
RecvError ==
    /\ running
    /\ queue = <<>>
    /\ Closed
    /\ last' = [NoLast EXCEPT !.req.kind = "RecvError"]
    /\ UNCHANGED <<now, peers, chunk, gen, listening, ticks, reads, faults, access_token, queue>>
    /\ log' = {}
    /\ UNCHANGED worker_vars
    /\ UNCHANGED server_vars

\* Server::broadcast_message of src/src/server.rs, the arm of Author::Client
\* and MessageContent::Bytes
chat_app_broadcast_message(author_addr, bytes, connected_clients, bad) ==
    LET others == SetToSeq({ client_addr \in DOMAIN connected_clients :
                                client_addr # author_addr })
        io == [k \in 1..Len(others) |->
                 Write(connected_clients[others[k]], Text("bytes", 0, bytes),
                       connected_clients[others[k]] \notin bad)]
    IN  [ok |-> \A k \in 1..Len(io) : io[k].ok, io |-> UpToFirstFailure(io)]

\* The dispatcher of src/src/server.rs broadcasts the bytes of a client;
\* conns holds its connected_clients, bad the streams whose write fails.
LegacyBroadcast(author_addr, bytes, bad) ==
    /\ bad \subseteq { conns[a] : a \in DOMAIN conns \ {author_addr} }
    /\ Cardinality(bad) <= faults
    /\ faults' = faults - Cardinality(bad)
    /\ \E r \in {chat_app_broadcast_message(author_addr, bytes, conns, bad)} :
           last' = [req |-> Request(author_addr, "Bytes", bytes), banned |-> FALSE,
                    fanout |-> r.ok, io |-> r.io]
    /\ UNCHANGED <<now, peers, chunk, gen, listening, ticks, reads, access_token, queue>>
    /\ log' = {}
    /\ UNCHANGED worker_vars
    /\ UNCHANGED server_vars

\* The steps of main and of the workers.  The dispatcher is let run before
\* more than `room` requests wait in the channel (a worker's step adds up to
\* two); the peers answer the challenge with one of `auth` and send the
\* chunks `chat` once they chat.
\* At most `most` chunks are read in the run.
WorkersUpTo(room, auth, chat, most) ==
    \/ \E w \in Addrs : Accept(w)
    \/ /\ Len(queue) < room
       /\ \E w \in Addrs, ok \in BOOLEAN, i \in auth : Authenticate(w, ok, i)
    \/ /\ Len(queue) < room
       /\ \E w \in Addrs, i \in chat :
              /\ (i.kind = "data" /\ i.bytes # <<>>) => reads < most
              /\ Read(w, i)

\* The same, with the number of chunks of most runs.
Workers(room, auth, chat) == WorkersUpTo(room, auth, chat, MaxReads)

WorkerNext == Workers(MaxQueue, AuthInputs, ChatInputs)

ServerNext ==
    /\ queue # <<>>
    /\ \E peer_ok \in BOOLEAN, bad \in Failing : ServerRun(peer_ok, bad)

\* One step of the program while the clock stands still.
Next == WorkerNext \/ ServerNext

\* One step of the program or of the clock.
NextClock == Tick \/ WorkerNext \/ ServerNext

\* Three peers chat; no clock step, no failing socket call.
Init == Setup(Addrs, 0, 0)
Spec == Init /\ [][Next]_vars

\* Two peers behind one IP, and the clock.
InitClock == Setup(SameIp, MaxTicks, 0)
SpecClock == InitClock /\ [][NextClock]_vars

\* Two peers; socket calls fail.
InitFaults == Setup(SameIp, 0, MaxFaults)
SpecFaults == InitFaults /\ [][Next]_vars

\* Two peers, one of which may send text that is not ASCII.
InitTokens == Setup(SameIp, 0, 0)
NextTokens == Workers(MaxQueue, AuthInputs, ChatInputs \cup {Data(Odd)}) \/ ServerNext
SpecTokens == InitTokens /\ [][NextTokens]_vars

\* Two peers; the channel may lose its senders.
InitClosed == Setup(SameIp, 0, 0)
NextClosed == WorkerNext \/ ServerNext \/ Stop \/ RecvError
SpecClosed == InitClosed /\ [][NextClosed]_vars

\* Three peers that stay and chat; socket calls fail.
InitFanFaults == Setup(Addrs, 0, MaxFaults)
NextFanFaults == Workers(MaxQueue, AuthInputs, ChatTexts) \/ ServerNext
SpecFanFaults == InitFanFaults /\ [][NextFanFaults]_vars

\* The broadcast of src/src/server.rs on every set of connected clients.
InitLegacy ==
    /\ now = 0
    /\ peers = {}
    /\ chunk = Hi
    /\ gen = [a \in Addrs |-> 0]
    /\ log = {"Server::new"}
    /\ listening = TRUE
    /\ ticks = 0
    /\ reads = 0
    /\ faults = MaxFaults
    /\ access_token \in TokenChoices
    /\ pc = [a \in Addrs |-> "init"]
    /\ exit = [a \in Addrs |-> None]
    /\ auth_input = [a \in Addrs |-> NoInput]
    /\ last_message_time = [a \in Addrs |-> 0]
    /\ strike_count = [a \in Addrs |-> 0]
    /\ sent = [a \in Addrs |-> <<>>]
    /\ streak = [a \in Addrs |-> 0]
    /\ wrote = [a \in Addrs |-> -1]
    /\ worker_io = [a \in Addrs |-> <<>>]
    /\ queue = <<>>
    /\ ban_list = EmptyMap
    /\ clients = EmptyMap
    /\ conns \in { [a \in S |-> a] : S \in SUBSET Addrs }
    /\ wait_list = EmptyMap
    /\ last = NoLast
    /\ running = TRUE
NextLegacy ==
    \E author_addr \in Addrs, bytes \in {Hi, Odd}, bad \in SUBSET Addrs :
        LegacyBroadcast(author_addr, bytes, bad)
SpecLegacy == InitLegacy /\ [][NextLegacy]_vars

\* Two peers; requests of both wait in the channel.
InitOrder == Setup(SameIp, 0, 0)
NextOrder == Workers(MaxBacklog, AuthInputs, ChatInputs) \/ ServerNext
SpecOrder == InitOrder /\ [][NextOrder]_vars

\* Two peers that send one and the same chat line, any of TextChunks.
InitText == SetupFor(SameIp, 0, 0, TokenChoices, TextChunks)
NextText == Workers(MaxQueue, AuthInputs, {Data(chunk)}) \/ ServerNext
SpecText == InitText /\ [][NextText]_vars

\* One peer that answers the challenge with candidate strings, for tokens
\* in which every value of a byte occurs.
InitParse == SetupFor(Alone, 0, 0, TokenChoices \cup TokenSamples, {Hi})
NextParse == Workers(MaxQueue, TokenCandidates(access_token), ChatInputs) \/ ServerNext
SpecParse == InitParse /\ [][NextParse]_vars

\* Two peers that may connect again once their worker has ended; socket
\* calls fail.
InitReconnect == Setup(SameIp, 0, MaxFaults)
NextReconnect == Next \/ \E w \in Addrs : Reaccept(w)
SpecReconnect == InitReconnect /\ [][NextReconnect]_vars

\* Two peers behind one IP, the clock, and one chunk more: one peer can be
\* connected when the other is banned.
InitEvict == Setup(SameIp, MaxTicks, 0)
NextEvict == Tick \/ WorkersUpTo(MaxQueue, AuthInputs, ChatInputs, MaxReads + 1) \/ ServerNext
SpecEvict == InitEvict /\ [][NextEvict]_vars

\* Server::run: the blocking recv returns with the request sent first.  Of
\* the steps of Next these are the steps of ServerNext, and such a step is
\* possible exactly when ServerNext is.
RecvReturns == running /\ queue # <<>> /\ queue' = recv(queue).rest

\* what a peer sends in the chat loop when no socket call fails: the text of
\* the token, which the dispatcher takes for the token while the peer waits
\* and for a chat line once it is connected, or it closes the connection
LiveChat == { Data(TokenText[access_token]), Eof }

\* Three peers chat or leave and the dispatcher's thread is scheduled: it
\* does not stay blocked in recv for ever while a request waits in the
\* channel.
InitLive == Setup(Addrs, 0, 0)
NextLive == Workers(MaxQueue, AuthInputs, LiveChat) \/ ServerNext
SpecLive == InitLive /\ [][NextLive]_vars /\ WF_queue(RecvReturns)

(***************************************************************************)
(* Properties                                                              *)
(***************************************************************************)
\* a request of this worker waits in the channel
Pending(a) == \E k \in 1..Len(queue) : queue[k].addr = a

\* the worker sent a request of this kind
HasSent(a, kind) == \E k \in 1..Len(sent[a]) : sent[a][k] = kind

\* the request the worker sent last
LastSent(a) == IF sent[a] = <<>> THEN None ELSE sent[a][Len(sent[a])]

\* the step is a turn of the dispatcher
ServerTurn == queue # <<>> /\ queue' = Tail(queue)

\* the step is a step of worker w in which it evaluates rate_limiter
Evaluates(w) ==
    /\ pc[w] \in {"auth", "read"}
    /\ pc'[w] = "read" \/ exit'[w] = "banned"
    /\ <<pc[w], strike_count[w], last_message_time[w]>> #
           <<pc'[w], strike_count'[w], last_message_time'[w]>>

\* C1: a fan-out of a message from author A is one write to the stream of
\* each connected address other than A, and nothing else; A's own stream is
\* not written.
C1_FanOutToAllButAuthor ==
    last.fanout =>
        /\ WrittenTo(last.io) = { conns[a] : a \in DOMAIN conns \ {last.req.addr} }
        /\ last.req.stream \notin WrittenTo(last.io)
        /\ Len(last.io) = Cardinality(DOMAIN conns \ {last.req.addr})
        /\ \A k \in 1..Len(last.io) : last.io[k].op = "write"

\* a connected author's message went to two others
C1_Witness ==
    /\ last.fanout
    /\ last.req.addr \in DOMAIN conns
    /\ Cardinality(WrittenTo(last.io)) = 2

\* the bytes b parse to the token t
IsToken(b, t) ==
    LET text == parse_text(b)
    IN  /\ text.kind = "ok"
        /\ LET parsed == TokenFromStr(text.text)
           IN  parsed.kind = "ok" /\ parsed.token = t

\* the answers to the challenge that parse to a token, with that token
Answers ==
    { p : p \in { q \in { i.bytes : i \in UNION { AuthInputsOf(t) : t \in TokenChoices } }
                          \X TokenChoices : IsToken(q[1], q[2]) } }

\* the peer at a answered the worker's challenge with the access token
Submitted(a) ==
    /\ auth_input[a].kind = "data"
    /\ <<auth_input[a].bytes, access_token>> \in Answers

\* C2: a peer that has not submitted the access token has a worker that sent
\* no request; its address is in none of the dispatcher's maps, nothing is
\* written to its stream and no request handled is its own.
C2_NoTokenNoConnect ==
    \A a \in Addrs :
        \/ /\ sent[a] = <<>>
           /\ ~Pending(a)
           /\ a \notin DOMAIN clients \cup DOMAIN conns \cup DOMAIN wait_list
           /\ a \notin WrittenTo(last.io)
           /\ last.req.addr # a
        \/ Submitted(a)

\* a peer failed the challenge and a message of another went round
C2_Witness ==
    /\ \E a \in Addrs : /\ exit[a] = "auth_failed"
                        /\ auth_input[a] = Data(TokenText[WrongToken])
    /\ last.fanout
    /\ WrittenTo(last.io) # {}

\* C3: a Broadcast whose author is not in the connected set is not fanned
\* out and leads to no write to any peer.
C3_FanOutOnlyIfConnected ==
    (last.req.kind = "Broadcast" /\ last.req.addr \notin DOMAIN conns) =>
        /\ ~last.fanout
        /\ WrittenTo(last.io) \subseteq {last.req.stream}

\* C4: what a worker has sent is a Connect, then Broadcasts, then at most
\* one Disconnect or Ban, and after that one the worker is over.
C4_WorkerContract ==
    \A a \in Addrs :
        /\ sent[a] \in { <<>>, <<"Connect">>, <<"Connect", "Broadcast">>,
                         <<"Connect", "Disconnect">>, <<"Connect", "Ban">>,
                         <<"Connect", "Broadcast", "Disconnect">>,
                         <<"Connect", "Broadcast", "Ban">> }
        /\ LastSent(a) \in {"Disconnect", "Ban"} => pc[a] = "done"

\* one worker went from Connect over Broadcasts to Ban, another from Connect
\* to Disconnect
C4_Witness ==
    \E a, b \in Addrs :
        /\ sent[a] = <<"Connect", "Broadcast", "Ban">>
        /\ sent[b] = <<"Connect", "Disconnect">>

\* C5: a worker that sent Connect and whose read loop ended on EOF or on a
\* read error has sent Disconnect as its last request.
C5_ReadEndSendsDisconnect ==
    \A a \in Addrs :
        (exit[a] \in {"eof", "read_error"} /\ HasSent(a, "Connect")) =>
            LastSent(a) = "Disconnect"

\* C6: once the Disconnect of A has been handled, A is not in the connected
\* set and no fan-out writes to A's stream.
C6_DisconnectedGetsNothing ==
    \A a \in Addrs :
        (LastSent(a) = "Disconnect" /\ ~Pending(a)) =>
            /\ a \notin DOMAIN conns
            /\ last.fanout => a \notin WrittenTo(last.io)

\* a peer that was connected has left, and a later message went to the other
C6_Witness ==
    \E a \in Addrs :
        /\ LastSent(a) = "Disconnect"
        /\ ~Pending(a)
        /\ a \in DOMAIN clients
        /\ clients[a].auth_timestamp # None
        /\ last.fanout
        /\ last.req.addr # a
        /\ Cardinality(WrittenTo(last.io)) = 1

\* the ban of this IP is within its window
InForce(ip) == ip \in DOMAIN ban_list /\ now - ban_list[ip] < TOTAL_BAN_TIME

\* C7: a request from an IP whose ban is in force is dropped by the ban
\* filter; a Connect enters neither the wait list nor the connected set and
\* its stream is shut down, a Broadcast is not fanned out.
C7_BannedIpIsRefused ==
    [][ (ServerTurn /\ InForce(Ip(Head(queue).addr))) =>
            LET m == Head(queue)
            IN  /\ last'.banned
                /\ m.kind = "Connect" =>
                       /\ m.addr \notin DOMAIN wait_list' \cup DOMAIN conns'
                       /\ \E k \in 1..Len(last'.io) : last'.io[k] = Shutdown(m.stream)
                /\ m.kind = "Broadcast" => ~last'.fanout ]_vars

\* C8: handling a Ban request from A, whose IP is not banned, puts A's IP in
\* ban_list at the present time, leaves A in neither the connected set nor
\* the wait list, and writes the ban notice to A's stream before shutting it
\* down.
C8_BanRequest ==
    [][ (ServerTurn /\ Head(queue).kind = "Ban"
                    /\ Ip(Head(queue).addr) \notin DOMAIN ban_list) =>
            LET m == Head(queue)
            IN  /\ Ip(m.addr) \in DOMAIN ban_list'
                /\ ban_list'[Ip(m.addr)] = now
                /\ m.addr \notin DOMAIN conns' \cup DOMAIN wait_list'
                /\ \E i, j \in 1..Len(last'.io) :
                       /\ i < j
                       /\ last'.io[i].op = "write"
                       /\ last'.io[i].stream = m.stream
                       /\ last'.io[i].text.tag = "Ban"
                       /\ last'.io[j] = Shutdown(m.stream) ]_vars

\* C9: an evaluation of rate_limiter less than the cooldown after
\* last_message_time adds one strike (the fifth is the ban), and one at the
\* cooldown or later, at exactly 300 ms too, sets the strikes to zero.
C9_StrikeOrReset ==
    [][ \A w \in Addrs :
          Evaluates(w) =>
            IF now - last_message_time[w] < 300
            THEN IF strike_count[w] + 1 >= 5
                 THEN exit'[w] = "banned"
                 ELSE strike_count'[w] = strike_count[w] + 1 /\ pc'[w] = "read"
            ELSE strike_count'[w] = 0 /\ pc'[w] = "read" ]_vars

\* a worker with two strikes has read exactly 300 ms after the read before:
\* no strike is left
C9_Witness ==
    \E w \in Addrs :
        /\ now = 300
        /\ pc[w] = "read"
        /\ sent[w] = <<"Connect", "Broadcast">>
        /\ reads = 2
        /\ last_message_time[w] = 300
        /\ strike_count[w] = 0

\* C10: a worker has sent Ban if and only if five evaluations in a row came
\* under the cooldown; it sent it once, as its last request, and is over.
C10_BanAtFiveStrikes ==
    \A a \in Addrs :
        /\ streak[a] <= MAX_STRIKE_COUNT
        /\ HasSent(a, "Ban") <=> streak[a] = MAX_STRIKE_COUNT
        /\ HasSent(a, "Ban") =>
               /\ pc[a] = "done"
               /\ LastSent(a) = "Ban"
               /\ Cardinality({k \in 1..Len(sent[a]) : sent[a][k] = "Ban"}) = 1
               /\ \A j, k \in 1..Len(queue) :
                      (queue[j].addr = a /\ queue[j].kind = "Ban" /\ j < k) =>
                          queue[k].addr # a

\* a worker was banned on its fifth strike and the dispatcher has handled it
C10_Witness ==
    \E a \in Addrs :
        /\ streak[a] = MAX_STRIKE_COUNT
        /\ exit[a] = "banned"
        /\ last.req = Request(a, "Ban", last.req.bytes)
        /\ Ip(a) \in DOMAIN ban_list

\* C11: strikes are recorded for chunks received from the peer only.  A
\* worker that has sent Ban has read at least five chunks, and a worker that
\* has sent Connect and has read no chunk yet holds no strike.
C11_StrikesOnlyForMessages ==
    \A a \in Addrs :
        /\ HasSent(a, "Ban") => reads >= MAX_STRIKE_COUNT
        /\ (pc[a] = "read" /\ sent[a] = <<"Connect">> /\ reads = 0) =>
               strike_count[a] = 0

\* C12: the ids in the client table are pairwise distinct; an entry keeps
\* its id and never leaves the table, and an address that enters gets an id
\* above every id given before, also after disconnects.
C12_IdsNeverReused ==
    [][ /\ \A a, b \in DOMAIN clients' :
              a # b => clients'[a].id # clients'[b].id
        /\ \A a \in DOMAIN clients :
              a \in DOMAIN clients' /\ clients'[a].id = clients[a].id
        /\ \A b \in DOMAIN clients' \ DOMAIN clients :
              \A a \in DOMAIN clients : clients'[b].id > clients[a].id ]_vars

\* a peer has left, and the Connect handled just now gave another address
\* its id
C12_Witness ==
    \E a, b \in Addrs :
        /\ a # b
        /\ LastSent(a) = "Disconnect" /\ ~Pending(a)
        /\ a \in DOMAIN clients /\ a \notin DOMAIN conns
        /\ last.req = Request(b, "Connect", <<>>)
        /\ b \in DOMAIN clients
        /\ clients[b].id > clients[a].id

\* C13: an address that enters the client table gets the id one above the
\* size the table had, and no id is zero.
C13_IdIsSizePlusOne ==
    [][ \A b \in DOMAIN clients' \ DOMAIN clients :
            /\ clients'[b].id = Cardinality(DOMAIN clients) + 1
            /\ clients'[b].id # 0 ]_vars

\* C14: whatever the request the dispatcher has handled, the loop of
\* Server::run has neither returned nor panicked.
C14_DispatcherGoesOn == last.req.kind # None => running

\* C15: when recv has failed on the closed channel, the loop of Server::run
\* is over.
C15_ClosedChannelIsFatal == last.req.kind = "RecvError" => ~running

\* C16: when the dispatcher handles a Broadcast of an authenticated author
\* whose IP is not banned, every connected address other than the author
\* gets a write, whether writes to others failed or not, and the connected
\* set is as it was: a recipient whose write failed stays connected.
C16_FailedWriteKeepsFanOut ==
    [][ ( /\ ServerTurn
          /\ Head(queue).kind = "Broadcast"
          /\ Head(queue).addr \in DOMAIN clients
          /\ clients[Head(queue).addr].auth_timestamp # None
          /\ ~last'.banned ) =>
          /\ last'.fanout
          /\ \A a \in DOMAIN conns \ {last'.req.addr} :
                \E k \in 1..Len(last'.io) :
                    last'.io[k].op = "write" /\ last'.io[k].stream = conns[a]
          /\ conns' = conns
          /\ \A k \in 1..Len(last'.io) :
                ~last'.io[k].ok => \E a \in DOMAIN conns' : conns'[a] = last'.io[k].stream
      ]_vars

\* the first write of a fan-out to two failed, the second was made, and the
\* recipient of the first is connected still
C16_Witness ==
    /\ last.fanout
    /\ Len(last.io) = 2
    /\ ~last.io[1].ok
    /\ last.io[2].op = "write" /\ last.io[2].ok
    /\ last.io[1].stream \in DOMAIN conns
    /\ last.io[2].stream \in DOMAIN conns

\* C17: when the dispatcher of src/src/server.rs has broadcast the bytes of
\* a client, every connected client other than the author got a write,
\* whether a write to another failed or not.
C17_LegacyFanOutGoesOn ==
    last.req.kind = "Bytes" =>
        \A a \in DOMAIN conns \ {last.req.addr} :
            \E k \in 1..Len(last.io) :
                last.io[k].op = "write" /\ last.io[k].stream = conns[a]

\* the kinds of the requests of worker a in the channel q, in its order
QueuedKinds(a, q) ==
    LET own == SelectSeq(q, LAMBDA m : m.addr = a)
    IN  [k \in 1..Len(own) |-> own[k].kind]

RECURSIVE Squeeze(_)
\* a sequence of kinds written as `sent` is: a run of Broadcasts once
Squeeze(kinds) ==
    IF kinds = <<>> THEN <<>>
    ELSE Sent(Squeeze(SubSeq(kinds, 1, Len(kinds) - 1)), kinds[Len(kinds)])

\* s is the end of t
IsSuffix(s, t) == Len(s) <= Len(t) /\ SubSeq(t, Len(t) - Len(s) + 1, Len(t)) = s

\* C18: a turn of the dispatcher handles the request that has waited
\* longest and takes that one request off the channel; any other step leaves
\* the waiting requests as they are and in their order, new ones behind them.
\* The requests of one worker wait in the order it sent them: they are the
\* end of what it has sent.
C18_ArrivalOrder ==
    [][ /\ IF last'.req.kind # None
           THEN /\ queue # <<>>
                /\ last'.req = Head(queue)
                /\ queue' = Tail(queue)
           ELSE /\ Len(queue') >= Len(queue)
                /\ SubSeq(queue', 1, Len(queue)) = queue
        /\ \A a \in Addrs : IsSuffix(Squeeze(QueuedKinds(a, queue')), sent'[a])
      ]_vars

\* the dispatcher has handled a request of one worker while a request of
\* another, sent after it, waited behind; that one is next
C18_Witness ==
    /\ last.req.kind = "Broadcast"
    /\ queue # <<>>
    /\ queue[1].addr # last.req.addr
    /\ queue[1].kind = "Disconnect"

\* C19: a worker has written to its stream only before it sent its first
\* request, the Connect; the dispatcher holds and writes the stream of an
\* address only when it has received the Connect that worker sent.
C19_SingleWriter ==
    \A w \in Addrs :
        /\ wrote[w] \in {-1, 0}
        /\ (w \in WrittenTo(last.io) \/ w \in DOMAIN conns \cup DOMAIN wait_list) =>
               /\ HasSent(w, "Connect")
               /\ wrote[w] = 0
               /\ ~\E k \in 1..Len(queue) :
                       queue[k].addr = w /\ queue[k].kind = "Connect"

\* the dispatcher writes to the stream of a worker that wrote the challenge
\* before its Connect and is in its chat loop
C19_Witness ==
    \E w \in Addrs :
        /\ wrote[w] = 0
        /\ pc[w] = "read"
        /\ w \in WrittenTo(last.io)
        /\ last.req.addr # w

\* C20: every chat text the dispatcher writes is the text of the Broadcast
\* it is handling, and goes to the stream of an address that is in the
\* connected set as that Broadcast is handled: no text handled earlier is
\* written later, and none to a peer that was not connected.
C20_NoReplay ==
    [][ \A k \in 1..Len(last'.io) :
          (last'.io[k].op = "write" /\ last'.io[k].text.tag = "user") =>
              /\ queue # <<>>
              /\ Head(queue).kind = "Broadcast"
              /\ last'.io[k].text.bytes = FilterControl(Head(queue).bytes)
              /\ \E a \in DOMAIN conns : conns[a] = last'.io[k].stream
      ]_vars

\* all four chunks are read and handled, three of them the tokens that
\* connected the three peers: a chat text of another peer was handled before
\* the turn just taken, which connects the last peer and writes it its
\* welcome only
C20_Witness ==
    \E a \in Addrs :
        /\ last.req = Request(a, "Broadcast", TokenText[access_token])
        /\ last.io = << Write(a, Text("Welcome", clients[a].id, <<>>), TRUE) >>
        /\ DOMAIN conns = Addrs
        /\ queue = <<>>
        /\ reads = 4
        /\ sent[a] = <<"Connect", "Broadcast">>

\* C21: the access token's text is written to the log by the startup message
\* of Server::new and by no later step: not when a candidate token is parsed,
\* not when a peer that submits the correct token is authenticated.
C21_TokenLoggedOnlyAtStartup == log \subseteq {"Server::new"}

RECURSIVE Strip(_)
\* the bytes without those under 0x20, the others in order
Strip(b) ==
    IF b = <<>> THEN <<>>
    ELSE IF b[1] < 32 THEN Strip(Tail(b))
    ELSE <<b[1]>> \o Strip(Tail(b))

\* the step is a round of the chat loop of worker w on a chunk it read
ReadsChunk(w) == pc[w] = "read" /\ reads' = reads + 1 /\ Evaluates(w)

\* the requests the step puts in the channel
NewRequests == SubSeq(queue', Len(queue) + 1, Len(queue'))

\* C22: when a worker in its chat loop reads a chunk, the Broadcast it sends
\* carries the chunk without its bytes under 0x20, the others in order; if
\* what remains is no UTF-8 it sends no Broadcast; either way it goes round
\* its read loop (unless rate_limiter ends it with a Ban).
C22_ForwardsSanitizedChunk ==
    [][\A w \in Addrs :
          (ReadsChunk(w) /\ running) =>
              /\ IF Utf8Valid(Strip(chunk))
                 THEN /\ NewRequests # <<>>
                      /\ NewRequests[1] = Request(w, "Broadcast", Strip(chunk))
                      /\ \A k \in 2..Len(NewRequests) : NewRequests[k].kind = "Ban"
                 ELSE \A k \in 1..Len(NewRequests) : NewRequests[k].kind = "Ban"
              /\ pc'[w] = "read" \/ exit'[w] = "banned"]_vars

\* a Broadcast waits in the channel with a chunk that lost control bytes
C22_Witness ==
    \E k \in 1..Len(queue) :
        /\ queue[k].kind = "Broadcast"
        /\ queue[k].bytes = Strip(chunk)
        /\ Len(queue[k].bytes) \in 1..(Len(chunk) - 1)

\* C23: a chunk that is not empty and holds only bytes under 0x20 is dropped:
\* the worker that reads it sends no Broadcast.
C23_ControlOnlyChunkDropped ==
    [][\A w \in Addrs :
          (ReadsChunk(w) /\ running /\ chunk # <<>> /\ Strip(chunk) = <<>>) =>
              \A k \in 1..Len(NewRequests) : NewRequests[k].kind # "Broadcast"]_vars

\* the string is sixteen hexadecimal digits
IsHex16(str) ==
    /\ Len(str) = 2 * TOKEN_LENGTH
    /\ \A k \in 1..Len(str) : str[k] \in (48..57) \cup (65..70) \cup (97..102)

\* C24: Token::from_str returns an error, and does not panic, on every
\* candidate that is not sixteen hexadecimal digits (not ASCII, of another
\* length, with a character that is no digit): the worker that read such a
\* candidate ends with a failed authentication.
C24_TokenFromStrRejects ==
    \A w \in Addrs :
        (auth_input[w].kind = "data" /\ ~IsHex16(Strip(auth_input[w].bytes)))
            => exit[w] = "auth_failed"

\* the value of an upper-case hexadecimal digit, -256 for another character
UpperDigit(c) ==
    IF c \in 48..57 THEN c - 48 ELSE IF c \in 65..70 THEN c - 55 ELSE -256

\* the bytes that a text of upper-case hexadecimal digits stands for
Decoded(text) ==
    [k \in 1..(Len(text) \div 2) |->
        16 * UpperDigit(text[2 * k - 1]) + UpperDigit(text[2 * k])]

\* C25: parsing the sixteen upper-case hexadecimal digits a token is
\* rendered as gives the token back; a worker that read the rendered token
\* has authenticated its peer.
C25_TokenRoundTrip ==
    /\ TokenFromStr(TokenDisplay(access_token)) = [kind |-> "ok", token |-> access_token]
    /\ Len(TokenDisplay(access_token)) = 2 * TOKEN_LENGTH
    /\ \A w \in Addrs :
           (auth_input[w].kind = "data" /\ Len(auth_input[w].bytes) = 2 * TOKEN_LENGTH
               /\ Decoded(auth_input[w].bytes) = access_token)
               => exit[w] \notin {"auth_failed", "panic"}

\* a worker read the rendered form of a token with a byte under 0x10 and
\* sent Connect
C25_Witness ==
    \E w \in Addrs :
        /\ auth_input[w] = Data(TokenDisplay(access_token))
        /\ \E k \in 1..TOKEN_LENGTH : access_token[k] < 16
        /\ HasSent(w, "Connect")

\* C26: no address is in the wait list and in the connected set at once.
C26_WaitingOrConnected == DOMAIN wait_list \cap DOMAIN conns = {}

\* one address waits while another is connected
C26_Witness == DOMAIN wait_list # {} /\ DOMAIN conns # {}

\* C27: a Connect request for an address that is connected leaves the entry
\* of that address as it was, its stream and its id, and the stream the
\* request offers is shut down.
C27_SecondConnectIsShutDown ==
    [][(ServerTurn /\ Head(queue).kind = "Connect"
           /\ Head(queue).addr \in DOMAIN conns /\ ~last'.banned) =>
          /\ conns' = conns
          /\ clients' = clients
          /\ \E k \in 1..Len(last'.io) : last'.io[k] = Shutdown(Head(queue).stream)]_vars

\* C28: a Disconnect request from an address that has no entry (and whose IP
\* is under no ban in force) changes nothing: the client table with the ids
\* handed out, the wait list, the connected set and the ban list are as
\* before.
C28_UnknownDisconnectIsNoOp ==
    [][(ServerTurn /\ Head(queue).kind = "Disconnect"
           /\ ~InForce(Ip(Head(queue).addr))
           /\ Head(queue).addr \notin DOMAIN clients \cup DOMAIN conns \cup DOMAIN wait_list) =>
          /\ clients' = clients
          /\ wait_list' = wait_list
          /\ conns' = conns
          /\ ban_list' = ban_list]_vars

\* the addresses that completed authentication with the dispatcher
Authenticated == { a \in DOMAIN clients : clients[a].auth_timestamp # None }

\* C29: ids are handed out on a successful connect only, and an address
\* that has not completed authentication holds none: the ids of the k
\* addresses that connected successfully are the first k ids (counted from
\* the first id there is, be it 0 or 1).
C29_IdsCountSuccessfulConnects ==
    \E first \in {0, 1} :
        { clients[a].id : a \in Authenticated } =
            first..(first + Cardinality(Authenticated) - 1)

\* C30: the ban filter holds a request of a banned IP back exactly when
\* banned_at + TOTAL_BAN_TIME - now is above zero, by however little (a
\* part of a second counts), and lets it pass once the whole time is over.
C30_BanWindowIsExact ==
    [][(ServerTurn /\ Ip(Head(queue).addr) \in DOMAIN ban_list) =>
          (last'.banned <=>
               (ban_list[Ip(Head(queue).addr)] + TOTAL_BAN_TIME) - now > 0)]_vars

\* C31: the ban of an IP stays in ban_list, as it is, until a request from
\* that IP is handled after the ban's time is over; that request takes the
\* entry out and is handled like any other, not dropped (a Ban request puts
\* a new entry in).
C31_LazyExpiry ==
    [][\A ip \in DOMAIN ban_list :
          LET turn == ServerTurn /\ Ip(Head(queue).addr) = ip /\ ~InForce(ip)
          IN  /\ (ip \notin DOMAIN ban_list' \/ ban_list'[ip] # ban_list[ip]) => turn
              /\ turn => /\ ~last'.banned
                         /\ ip \notin DOMAIN ban_list' \/ Head(queue).kind = "Ban"]_vars

\* C32: a request from an address in the connected set whose IP is under a
\* ban in force is dropped by the ban filter, which takes the address out
\* of the connected set, writes the ban notice to its stream and shuts the
\* stream down.
C32_BannedConnectedIsEvicted ==
    [][(ServerTurn /\ Head(queue).addr \in DOMAIN conns
           /\ InForce(Ip(Head(queue).addr))) =>
          LET a == Head(queue).addr
          IN  /\ last'.banned
              /\ conns' = MapRemove(conns, a)
              /\ Len(last'.io) = 2
              /\ last'.io[1].op = "write" /\ last'.io[1].stream = conns[a]
              /\ last'.io[1].text.tag = "Banned"
              /\ last'.io[2] = Shutdown(conns[a])]_vars

\* C33: when the token a peer submitted does not parse (not sixteen
\* characters, not ASCII, not all hexadecimal digits), the worker writes an
\* "Invalid token" notice to the peer before it ends, and the stream is shut
\* down.
C33_InvalidTokenNotice ==
    \A w \in Addrs :
        (auth_input[w].kind = "data" /\ ~IsHex16(Strip(auth_input[w].bytes))
            /\ exit[w] \in {"auth_failed", "panic"}) =>
            \E k \in 1..(Len(worker_io[w]) - 1) :
                /\ worker_io[w][k].op = "write"
                /\ worker_io[w][k].text.tag = "Invalid token"
                /\ worker_io[w][Len(worker_io[w])] = Shutdown(Stream(w))

\* C34: once the dispatcher has handled a Disconnect request of an address,
\* the stream of that address is in neither the connected set nor the wait
\* list, whichever of the two held it.
C34_DisconnectReleasesStream ==
    [][(ServerTurn /\ Head(queue).kind = "Disconnect" /\ ~last'.banned) =>
          Head(queue).addr \notin DOMAIN conns' \cup DOMAIN wait_list']_vars

\* C35: no address in the connected set has an IP whose ban is in force: a
\* ban issued through one connection evicts every connected address of that
\* IP as it is issued.
C35_NoBannedIpConnected == \A a \in DOMAIN conns : ~InForce(Ip(a))

\* C37: a request that the ban filter drops leaves ban_list as it is, and
\* so does every request from an IP whose ban is in force: banned_at is not
\* changed, the ban is made neither longer nor shorter.
C37_DroppedRequestKeepsBan ==
    [][ServerTurn =>
          /\ last'.banned => ban_list' = ban_list
          /\ InForce(Ip(Head(queue).addr)) => ban_list' = ban_list]_vars

\* C38: whenever rate_limiter has returned, strike_count is between 0 and
\* MAX_STRIKE_COUNT - 1.
C38_StrikesBelowMax ==
    \A w \in Addrs : strike_count[w] \in 0..(MAX_STRIKE_COUNT - 1)

\* rate_limiter said ban at the fifth evaluation in a row under the cooldown
\* and left no strike
C38_Witness ==
    \E w \in Addrs :
        /\ exit[w] = "banned"
        /\ streak[w] = MAX_STRIKE_COUNT
        /\ strike_count[w] = 0

\* the texts of the lines of LiveChat, whatever the token drawn
LiveTexts == { TokenText[t] : t \in TokenChoices }

\* a Broadcast of a with text b waits in the channel, a is connected and no
\* ban of its IP is in force
Enqueued(a, b) ==
    /\ a \in DOMAIN conns
    /\ ~InForce(Ip(a))
    /\ \E k \in 1..Len(queue) : queue[k] = Request(a, "Broadcast", b)

\* the turn just taken wrote the text b of a to every address that was
\* connected, a itself apart
Delivered(a, b) ==
    /\ last.fanout
    /\ last.req = Request(a, "Broadcast", b)
    /\ \A c \in DOMAIN conns \ {a} :
           \E k \in 1..Len(last.io) :
               last.io[k] = Write(conns[c], Text("user", clients[a].id, b), TRUE)

====
